---- MODULE Spec2Model ----
(***************************************************************************)
(* Model of src/parsing/app.py: a chain of five handlers (loader, cleaner, *)
(* feature selector, splitter, saver) run by DataProcessingPipeline.process*)
(* over one table (pandas DataFrame) and one context dictionary.           *)
(*                                                                         *)
(* A table is a record [cols, rows]: cols is the sequence of column names, *)
(* rows the sequence of rows, each row a sequence of cells aligned with    *)
(* cols.  A cell is Missing (pandas NaN) or a positive integer.  The       *)
(* handlers only compare cells of the same column for equality, so the     *)
(* columns of the input tables are enumerated up to a renaming of their    *)
(* values (Patterns).                                                      *)
(***************************************************************************)
EXTENDS Integers, Sequences, FiniteSets, TLC

VARIABLES pc, input, data, prev, context, files, exitStatus, ran, failed

vars == <<pc, input, data, prev, context, files, exitStatus, ran, failed>>

\* ------------------------------------------------------------ bounds
\* Largest number of rows of an input table.
MaxRows == 3

\* The column names an input table draws from, in header order.
ColNames == <<"A", "B", "C">>

\* ------------------------------------------------------------ values
\* The missing-marker (NaN) of a cell; every other cell is a positive integer.
Missing == 0

\* data = None: process passes None to the loader (line 154).
None == [cols |-> <<"<None>">>, rows |-> <<>>]

\* No context dictionary exists before process creates it (line 148).
NoContext == [none |-> TRUE]

\* No exit status while the process runs.
Running == <<>>

MaxOf(S) == CHOOSE m \in S : \A x \in S : x <= m

\* The columns of r cells up to a renaming of the non-missing values: a cell is
\* Missing, a value seen above it, or the next fresh value.
RECURSIVE Patterns(_)
Patterns(r) ==
    IF r = 0 THEN {<<>>}
    ELSE UNION {{Append(s, v) : v \in 0..(1 + MaxOf({s[j] : j \in 1..Len(s)} \cup {0}))} :
                    s \in Patterns(r - 1)}

\* Row i of the table whose columns are cs[1] .. cs[n].
RECURSIVE MkRow(_, _, _)
MkRow(cs, i, n) == IF n = 0 THEN <<>> ELSE Append(MkRow(cs, i, n - 1), cs[n][i])

RECURSIVE MkRows(_, _, _)
MkRows(cs, r, n) == IF r = 0 THEN <<>> ELSE Append(MkRows(cs, r - 1, n), MkRow(cs, r, n))

MkTable(r, n, cs) == [cols |-> SubSeq(ColNames, 1, n), rows |-> MkRows(cs, r, n)]

TablesOf(r, n) == {MkTable(r, n, cs) : cs \in [1..n -> Patterns(r)]}

NRows(t) == Len(t.rows)
NCols(t) == Len(t.cols)
Shape(t) == <<NRows(t), NCols(t)>>
Column(t, c) == [i \in 1..NRows(t) |-> t.rows[i][c]]

\* context[k] = v
Put(ctx, k, v) == [x \in DOMAIN ctx \cup {k} |-> IF x = k THEN v ELSE ctx[x]]

\* ------------------------------------------------- the chain (lines 10-24)
\* _next_handler of each handler, as DataProcessingPipeline.__init__ wires it:
\* set_next returns the handler it was given, so the calls chain.
SetNextReturnsSelf ==
    [loader |-> "saver"]

NextHandler ==
    [loader |-> "cleaner", cleaner |-> "feature_selector",
     feature_selector |-> "splitter", splitter |-> "saver"]

\* DataHandler.handle: call the next handler if there is one, else return data
\* (to process, through every caller's return).
Forward(h) == IF h \in DOMAIN NextHandler THEN NextHandler[h] ELSE "returned"

\* ------------------------------------------------- cleaner (lines 47-60)
AllMissing(row) == \A c \in 1..Len(row) : row[c] = Missing

\* data.dropna(how='all')
DropNaAll(t) == [t EXCEPT !.rows = SelectSeq(t.rows, LAMBDA row : ~AllMissing(row))]

RECURSIVE KeepFirst(_, _)
KeepFirst(rows, out) ==
    IF rows = <<>> THEN out
    ELSE KeepFirst(Tail(rows),
                   IF \E j \in 1..Len(out) : out[j] = Head(rows)
                   THEN out ELSE Append(out, Head(rows)))

RECURSIVE KeepLast(_, _)
KeepLast(rows, out) ==
    IF rows = <<>> THEN out
    ELSE KeepLast(Tail(rows),
                  IF \E j \in 2..Len(rows) : rows[j] = Head(rows)
                  THEN out ELSE Append(out, Head(rows)))

RECURSIVE DropNextIfEqual(_)
DropNextIfEqual(rows) ==
    IF Len(rows) < 2 THEN rows
    ELSE IF rows[1] = rows[2]
         THEN <<rows[1]>> \o DropNextIfEqual(SubSeq(rows, 3, Len(rows)))
         ELSE <<rows[1]>> \o DropNextIfEqual(Tail(rows))

\* drop_duplicates(keep='last'): the last occurrence of a row survives.
DropDuplicatesKeepLast(t) == [t EXCEPT !.rows = KeepLast(t.rows, <<>>)]

\* A removal that skips the row after each row it removes.
DropDuplicatesSkipping(t) == [t EXCEPT !.rows = DropNextIfEqual(t.rows)]

\* data.drop_duplicates(): the first occurrence of a row survives; missing
\* cells match missing cells.
DropDuplicates(t) == [t EXCEPT !.rows = KeepFirst(t.rows, <<>>)]

CleanData(t) == DropDuplicates(DropNaAll(t))

CleanedKeyOverwrites == "original_shape"

\* The key the cleaner records its shape under (line 59).
CleanedKey == "cleaned_shape"

CleanContext(t, ctx) == Put(ctx, CleanedKey, Shape(CleanData(t)))

\* ---------------------------------------- feature selector (lines 66-80)
\* nunique(dropna=False): a missing cell counts as a value.
NUniqueCountingMissing(t, c) == Cardinality({t.rows[i][c] : i \in 1..NRows(t)})

\* data[col].nunique(): the number of distinct non-missing values.
NUnique(t, c) == Cardinality({t.rows[i][c] : i \in 1..NRows(t)} \ {Missing})

\* The test compared with the number of columns.
ColsToDropByColumnCount(t) == {c \in 1..NCols(t) : NUnique(t, c) = NCols(t)}

\* The test guarded against an empty table.
ColsToDropGuarded(t) == {c \in 1..NCols(t) : NRows(t) > 0 /\ NUnique(t, c) = NRows(t)}

\* cols_to_drop (as column positions): decided on the table as it came in.
ColsToDrop(t) == {c \in 1..NCols(t) : NUnique(t, c) = NRows(t)}

\* The positions outside D, in increasing order.
Surviving(n, D) == SelectSeq([i \in 1..n |-> i], LAMBDA i : i \notin D)

\* data.drop(columns=...): the index (the rows) stays, the columns go.
DropColumns(t, D) ==
    LET keep == Surviving(NCols(t), D)
    IN [cols |-> [k \in 1..Len(keep) |-> t.cols[keep[k]]],
        rows |-> [i \in 1..NRows(t) |-> [k \in 1..Len(keep) |-> t.rows[i][keep[k]]]]]

SelectFeatures(t) == IF ColsToDrop(t) # {} THEN DropColumns(t, ColsToDrop(t)) ELSE t

SelectContext(t, ctx) == Put(ctx, "selected_features", SelectFeatures(t).cols)

\* ------------------------------------------------ splitter (lines 86-103)
TooFewColumnsOffByOne(t) == NCols(t) < 1

\* len(data.columns) < 2
TooFewColumns(t) == NCols(t) < 2

\* data.columns[-1]
TargetCol(t) == t.cols[NCols(t)]

\* A two-dimensional array: its shape and its rows.
Array2D(t) == [shape |-> Shape(t), vals |-> t.rows]

\* The target column kept among the features.
FeatureMatrixKeepingTarget(t) == Array2D(t)

\* data.drop(columns=[target_col]).values
FeatureMatrix(t) == Array2D(DropColumns(t, {NCols(t)}))

\* data[target_col].values
TargetVector(t) == [shape |-> <<NRows(t)>>, vals |-> Column(t, NCols(t))]

SplitContext(t, ctx) ==
    Put(Put(Put(ctx, "X_data", FeatureMatrix(t)), "y_data", TargetVector(t)),
        "target_column", TargetCol(t))

\* -------------------------------------------------- saver (lines 109-122)
OutputDir(ctx) == IF "output_dir" \in DOMAIN ctx THEN ctx["output_dir"] ELSE "."

XFile(ctx) == <<OutputDir(ctx), "x_data.npy">>
YFile(ctx) == <<OutputDir(ctx), "y_data.npy">>

\* np.save(path, array)
Save(fs, path, array) == [f \in DOMAIN fs \cup {path} |-> IF f = path THEN array ELSE fs[f]]

\* ------------------------------------------------------------ the run
\* After DataProcessingPipeline(): process has not been called; the input file
\* holds some table.  ran lists the handlers that have executed, failed names
\* the handler that failed ("none": no handler has).
Init ==
    /\ pc = "idle"
    /\ \E r \in 0..MaxRows, n \in 1..Len(ColNames) : input \in TablesOf(r, n)
    /\ data = None
    /\ prev = None
    /\ context = NoContext
    /\ files = <<>>
    /\ exitStatus = Running
    /\ ran = <<>>
    /\ failed = "none"

\* process, lines 148-154: the context is created and the loader is called
\* with data = None.
Process ==
    /\ pc = "idle"
    /\ context' = [file_path |-> "input.csv", output_dir |-> "."]
    /\ pc' = "loader"
    /\ UNCHANGED <<input, data, prev, files, exitStatus, ran, failed>>

\* DataLoaderHandler.handle, read_csv succeeds.
LoaderOk ==
    /\ pc = "loader"
    /\ data = None
    /\ data' = input
    /\ prev' = data
    /\ context' = Put(context, "original_shape", Shape(input))
    /\ ran' = Append(ran, "loader")
    /\ pc' = Forward("loader")
    /\ UNCHANGED <<input, files, exitStatus, failed>>

\* DataLoaderHandler.handle, read_csv raises: sys.exit(1) (lines 38-40).
LoaderFail ==
    /\ pc = "loader"
    /\ data = None
    /\ ran' = Append(ran, "loader")
    /\ failed' = "loader"
    /\ exitStatus' = <<1>>
    /\ pc' = "exited"
    /\ UNCHANGED <<input, data, prev, context, files>>

\* CleanDataHandler.handle
Cleaner ==
    /\ pc = "cleaner"
    /\ data' = CleanData(data)
    /\ prev' = data
    /\ context' = CleanContext(data, context)
    /\ ran' = Append(ran, "cleaner")
    /\ pc' = Forward("cleaner")
    /\ UNCHANGED <<input, files, exitStatus, failed>>

\* FeatureSelectionHandler.handle
FeatureSelector ==
    /\ pc = "feature_selector"
    /\ data' = SelectFeatures(data)
    /\ prev' = data
    /\ context' = SelectContext(data, context)
    /\ ran' = Append(ran, "feature_selector")
    /\ pc' = Forward("feature_selector")
    /\ UNCHANGED <<input, files, exitStatus, failed>>

\* SplitDataHandler.handle, at least two columns.
SplitterOk ==
    /\ pc = "splitter"
    /\ ~TooFewColumns(data)
    /\ context' = SplitContext(data, context)
    /\ prev' = data
    /\ ran' = Append(ran, "splitter")
    /\ pc' = Forward("splitter")
    /\ UNCHANGED <<input, data, files, exitStatus, failed>>

\* SplitDataHandler.handle raises ValueError (lines 87-88); it propagates
\* through the callers to process.
SplitterRaise ==
    /\ pc = "splitter"
    /\ TooFewColumns(data)
    /\ ran' = Append(ran, "splitter")
    /\ failed' = "splitter"
    /\ pc' = "raised"
    /\ UNCHANGED <<input, data, prev, context, files, exitStatus>>

\* SaveNumpyHandler.handle, both np.save calls succeed.
SaverOk ==
    /\ pc = "saver"
    /\ {"X_data", "y_data"} \subseteq DOMAIN context
    /\ files' = Save(Save(files, XFile(context), context["X_data"]),
                     YFile(context), context["y_data"])
    /\ prev' = data
    /\ ran' = Append(ran, "saver")
    /\ pc' = Forward("saver")
    /\ UNCHANGED <<input, data, context, exitStatus, failed>>

\* SaveNumpyHandler.handle, the first np.save (or the lookup of X_data)
\* raises: sys.exit(1) (lines 118-120).
SaverFailX ==
    /\ pc = "saver"
    /\ ran' = Append(ran, "saver")
    /\ failed' = "saver"
    /\ exitStatus' = <<1>>
    /\ pc' = "exited"
    /\ UNCHANGED <<input, data, prev, context, files>>

\* SaveNumpyHandler.handle, the second np.save raises: x_data.npy stays.
SaverFailY ==
    /\ pc = "saver"
    /\ "X_data" \in DOMAIN context
    /\ files' = Save(files, XFile(context), context["X_data"])
    /\ ran' = Append(ran, "saver")
    /\ failed' = "saver"
    /\ exitStatus' = <<1>>
    /\ pc' = "exited"
    /\ UNCHANGED <<input, data, prev, context>>

\* process, lines 155-157, then main returns: exit status 0.
ProcessReturn ==
    /\ pc = "returned"
    /\ exitStatus' = <<0>>
    /\ pc' = "exited"
    /\ UNCHANGED <<input, data, prev, context, files, ran, failed>>

\* process, lines 158-160: an Exception out of the chain ends in sys.exit(1).
ProcessExcept ==
    /\ pc = "raised"
    /\ exitStatus' = <<1>>
    /\ pc' = "exited"
    /\ UNCHANGED <<input, data, prev, context, files, ran, failed>>

Next ==
    \/ Process
    \/ LoaderOk
    \/ LoaderFail
    \/ Cleaner
    \/ FeatureSelector
    \/ SplitterOk
    \/ SplitterRaise
    \/ SaverOk
    \/ SaverFailX
    \/ SaverFailY
    \/ ProcessReturn
    \/ ProcessExcept

Spec == Init /\ [][Next]_vars

\* ------------------------------------------------ the end-to-end scenario
\* The scenario's five identifiers, column A.
Identifiers == <<1, 2, 3, 4, 5>>

HasRepeatedValue(col) ==
    \E i, j \in 1..Len(col) : i < j /\ col[i] = col[j] /\ col[i] # Missing

\* Five rows, three columns: A the identifiers, B with a repeated value, C any.
ScenarioTables ==
    {MkTable(Len(Identifiers), Len(ColNames), <<Identifiers, b, c>>) :
        b \in {p \in Patterns(Len(Identifiers)) : HasRepeatedValue(p)},
        c \in Patterns(Len(Identifiers))}

InitScenario ==
    /\ pc = "idle"
    /\ input \in ScenarioTables
    /\ data = None
    /\ prev = None
    /\ context = NoContext
    /\ files = <<>>
    /\ exitStatus = Running
    /\ ran = <<>>
    /\ failed = "none"

SpecScenario == InitScenario /\ [][Next]_vars

\* --------------------------------------------- one handler on its own
\* A handler that was given no next handler returns the table it produced
\* (lines 22-24): each handler is applied, with a fresh context dictionary, to
\* any table, and again to a result.  ran holds the handler applied last.
InitUnit ==
    /\ pc = "unit"
    /\ input = None
    /\ \E r \in 0..MaxRows, n \in 1..Len(ColNames) : data \in TablesOf(r, n)
    /\ prev = None
    /\ context = <<>>
    /\ files = <<>>
    /\ exitStatus = Running
    /\ ran = <<>>
    /\ failed = "none"

UnitCleaner ==
    /\ pc = "unit"
    /\ data' = CleanData(data)
    /\ prev' = data
    /\ context' = CleanContext(data, <<>>)
    /\ ran' = <<"cleaner">>
    /\ UNCHANGED <<pc, input, files, exitStatus, failed>>

UnitFeatureSelector ==
    /\ pc = "unit"
    /\ data' = SelectFeatures(data)
    /\ prev' = data
    /\ context' = SelectContext(data, <<>>)
    /\ ran' = <<"feature_selector">>
    /\ UNCHANGED <<pc, input, files, exitStatus, failed>>

UnitSplitterOk ==
    /\ pc = "unit"
    /\ ~TooFewColumns(data)
    /\ context' = SplitContext(data, <<>>)
    /\ prev' = data
    /\ ran' = <<"splitter">>
    /\ UNCHANGED <<pc, input, data, files, exitStatus, failed>>

UnitSplitterRaise ==
    /\ pc = "unit"
    /\ TooFewColumns(data)
    /\ ran' = <<"splitter">>
    /\ failed' = "splitter"
    /\ pc' = "raised"
    /\ UNCHANGED <<input, data, prev, context, files, exitStatus>>

NextUnit ==
    \/ UnitCleaner
    \/ UnitFeatureSelector
    \/ UnitSplitterOk
    \/ UnitSplitterRaise

SpecUnit == InitUnit /\ [][NextUnit]_vars

\* ================================================================ claims
IsPrefix(s, t) == Len(s) <= Len(t) /\ \A i \in 1..Len(s) : s[i] = t[i]

Stages == <<"loader", "cleaner", "feature_selector", "splitter", "saver">>

StageIndex(h) == CHOOSE i \in 1..Len(Stages) : Stages[i] = h

Ran(h) == \E i \in 1..Len(ran) : ran[i] = h

Keys(ctx) == IF ctx = NoContext THEN {} ELSE DOMAIN ctx

\* C1: the handlers that have executed are a prefix of loader, cleaner, feature
\* selector, splitter, saver (so each ran at most once); a handler is entered
\* only when all its predecessors have completed and none has failed; the
\* handler that failed is the last one that ran (none runs after it); the run
\* exits with status 0 exactly when all five completed, and with status 1 when
\* the loader, the splitter or the saver failed.
C1_StagedRun ==
    /\ IsPrefix(ran, Stages)
    /\ pc \in {Stages[i] : i \in 1..Len(Stages)} =>
          /\ failed = "none"
          /\ ran = SubSeq(Stages, 1, StageIndex(pc) - 1)
    /\ failed # "none" =>
          /\ ran # <<>>
          /\ failed = ran[Len(ran)]
          /\ pc \in {"raised", "exited"}
    /\ pc # "exited" => exitStatus = Running
    /\ pc = "exited" =>
          /\ exitStatus \in {<<0>>, <<1>>}
          /\ exitStatus = <<0>> <=> (ran = Stages /\ failed = "none")
          /\ failed \in {"loader", "splitter", "saver"} => exitStatus = <<1>>

\* A run in which all five handlers completed and the process exited with 0.
C1_Witness == pc = "exited" /\ exitStatus = <<0>> /\ ran = Stages /\ failed = "none"

\* C2: once the splitter has run on a table of fewer than two columns, it has
\* failed, the error is on its way to process or has ended the run with status
\* 1, the saver has not run, no file has been written and X_data, y_data and
\* target_column are not in the context.
C2_SplitterFailure ==
    (Ran("splitter") /\ NCols(data) < 2) =>
        /\ failed = "splitter"
        /\ pc \in {"raised", "exited"}
        /\ pc = "raised" => exitStatus = Running
        /\ pc = "exited" => exitStatus = <<1>>
        /\ ~Ran("saver")
        /\ DOMAIN files = {}
        /\ Keys(context) \cap {"X_data", "y_data", "target_column"} = {}

\* The run has ended after the splitter met a table of exactly one column.
C2_Witness ==
    /\ pc = "exited"
    /\ Ran("splitter")
    /\ NCols(data) = 1
    /\ NRows(data) > 0
    /\ exitStatus = <<1>>

\* C7: the splitter succeeds on every table of at least two columns, and from
\* then on (the saver included) the feature matrix holds every column but the
\* last, in order, the target vector holds the last column, target_column names
\* it, both have as many rows as the table, the matrix has one column fewer,
\* and a file that was written holds the array it was written from.
C7_SplitShapes ==
    /\ (Ran("splitter") /\ NCols(data) >= 2) => "X_data" \in Keys(context)
    /\ "X_data" \in Keys(context) =>
          LET X == context["X_data"]
              y == context["y_data"]
              n == NCols(data)
          IN /\ n >= 2
             /\ X.shape = <<NRows(data), n - 1>>
             /\ y.shape = <<NRows(data)>>
             /\ Len(X.vals) = NRows(data)
             /\ Len(y.vals) = Len(X.vals)
             /\ \A i \in 1..NRows(data) :
                   /\ X.vals[i] = SubSeq(data.rows[i], 1, n - 1)
                   /\ y.vals[i] = data.rows[i][n]
             /\ context["target_column"] = data.cols[n]
             /\ XFile(context) \in DOMAIN files => files[XFile(context)] = X
             /\ YFile(context) \in DOMAIN files => files[YFile(context)] = y

\* The saver has run on a three-column table with rows.
C7_Witness ==
    /\ Ran("saver")
    /\ "X_data" \in Keys(context)
    /\ NCols(data) = 3
    /\ NRows(data) >= 2
    /\ DOMAIN files = {XFile(context), YFile(context)}

PipelineKeys == {"file_path", "output_dir"}

GrowsOnly(ctx, ctx2) ==
    /\ DOMAIN ctx \subseteq DOMAIN ctx2
    /\ \A k \in DOMAIN ctx : ctx2[k] = ctx[k]

\* C9 as stated: the context is created empty, and from then on every step only
\* adds keys: no key is removed and no value written earlier is overwritten.
C9_CreatedEmpty ==
    [][/\ (context = NoContext /\ context' # NoContext) => DOMAIN context' = {}
       /\ context # NoContext => GrowsOnly(context, context')]_vars

\* C9 amended: the context is created holding the input path and the output
\* directory, and from then on every step only adds keys: no key is removed and
\* no value written earlier is overwritten.
C9_AppendOnly ==
    [][/\ (context = NoContext /\ context' # NoContext) =>
             DOMAIN context' = PipelineKeys
       /\ context # NoContext => GrowsOnly(context, context')]_vars

\* Every handler has written its keys, and the cleaner removed rows.
C9_Witness ==
    /\ pc = "exited"
    /\ Keys(context) = PipelineKeys \cup
          {"original_shape", "cleaned_shape", "selected_features",
           "X_data", "y_data", "target_column"}
    /\ context["original_shape"] # context["cleaned_shape"]

ZeroRowInput == \A i \in 1..NRows(input) : AllMissing(input.rows[i])

\* C10: an input with no rows, or whose rows are all fully empty, reaches the
\* feature selector with zero rows; whenever the feature selector has run on a
\* table of zero rows it has removed every column, the splitter fails if it
\* runs, the saver does not run, no file is written, and the run does not exit
\* with status 0.
C10_ZeroRows ==
    /\ (ZeroRowInput /\ Ran("cleaner")) => context["cleaned_shape"][1] = 0
    /\ (Ran("feature_selector") /\ context["cleaned_shape"][1] = 0) =>
          /\ data.cols = <<>>
          /\ context["selected_features"] = <<>>
          /\ Ran("splitter") => failed = "splitter"
          /\ ~Ran("saver")
          /\ DOMAIN files = {}
          /\ exitStatus # <<0>>
          /\ pc = "exited" => exitStatus = <<1>>

\* The run has ended on a three-column input whose rows were all fully empty.
C10_Witness ==
    /\ pc = "exited"
    /\ failed = "splitter"
    /\ NCols(input) = 3
    /\ NRows(input) >= 2
    /\ ZeroRowInput

\* ---------------------------------------------------- claims on one handler
LastHandler(h) == ran = <<h>>

PairwiseDistinct(t, c) ==
    \A i, j \in 1..NRows(t) : i # j => t.rows[i][c] # t.rows[j][c]

NoMissing(t, c) == \A i \in 1..NRows(t) : t.rows[i][c] # Missing

Removed(c) == \A k \in 1..NCols(data) : data.cols[k] # prev.cols[c]

\* C4 as stated: the feature selector removes a column exactly when no two
\* rows of the column hold the same value, a missing cell being a value like
\* any other; the decisions are taken on the table as it came in.
C4_RemovesAllUnique ==
    LastHandler("feature_selector") =>
        \A c \in 1..NCols(prev) : Removed(c) <=> PairwiseDistinct(prev, c)

\* C4 amended: the feature selector removes a column exactly when the column
\* has no missing cell and no two of its rows hold the same value (its count
\* of distinct non-missing values equals the row count); the decisions are
\* taken on the table as it came in.
C4_RemovesAllUniqueNonMissing ==
    LastHandler("feature_selector") =>
        \A c \in 1..NCols(prev) :
            Removed(c) <=> (NoMissing(prev, c) /\ PairwiseDistinct(prev, c))

\* The feature selector removed one column of three rows and kept one whose
\* values are all different but for a missing cell.
C4_Witness ==
    /\ LastHandler("feature_selector")
    /\ NRows(prev) = 3
    /\ \E c, d \in 1..NCols(prev) :
          /\ Removed(c)
          /\ ~Removed(d)
          /\ PairwiseDistinct(prev, d)

\* The rows the cleaner is to keep: not fully empty, and equal to no earlier row.
KeptRows(t) ==
    {i \in 1..NRows(t) :
        /\ ~AllMissing(t.rows[i])
        /\ \A j \in 1..(i - 1) : t.rows[j] # t.rows[i]}

\* The k-th smallest member of a set of row positions.
Nth(S, k) == CHOOSE i \in S : Cardinality({j \in S : j <= i}) = k

\* C5: the cleaner's output has the columns of its input, and its rows are the
\* input rows that are not fully empty and equal no earlier row, in input order
\* and with their cells unchanged.
C5_CleanerReference ==
    LastHandler("cleaner") =>
        /\ data.cols = prev.cols
        /\ NRows(data) = Cardinality(KeptRows(prev))
        /\ \A k \in 1..NRows(data) : data.rows[k] = prev.rows[Nth(KeptRows(prev), k)]

\* The cleaner removed a fully empty row and the second of two equal rows.
C5_Witness ==
    /\ LastHandler("cleaner")
    /\ NRows(prev) = 3
    /\ NRows(data) = 1
    /\ \E i, j, k \in 1..NRows(prev) :
          /\ AllMissing(prev.rows[i])
          /\ j < k
          /\ prev.rows[j] = prev.rows[k]
          /\ ~AllMissing(prev.rows[j])
          /\ data.rows[1] = prev.rows[j]

\* C6: the cleaner's output has at most as many rows as its input, and the
\* cleaner applied to a cleaner's output returns that table unchanged.
C6_CleanerIdempotent ==
    /\ [](LastHandler("cleaner") => NRows(data) <= NRows(prev))
    /\ [][(LastHandler("cleaner") /\ LastHandler("cleaner")') => data' = data]_vars

\* The cleaner left a table of three rows as it was: what a second application
\* to its own output does.
C6_Witness ==
    /\ LastHandler("cleaner")
    /\ data = prev
    /\ NRows(data) = 3

Position(name, cols) == CHOOSE i \in 1..Len(cols) : cols[i] = name

HasRepeat(t, c) == \E i, j \in 1..NRows(t) : i # j /\ t.rows[i][c] = t.rows[j][c]

\* C8: the feature selector's output columns are columns of its input, in
\* their input order, the rows are the input rows (none added or removed,
\* surviving cells unchanged), and a column of a table of at least two rows
\* that holds a repeated value is not removed.
C8_SelectorSubset ==
    LastHandler("feature_selector") =>
        /\ \A k \in 1..NCols(data) : \E c \in 1..NCols(prev) : prev.cols[c] = data.cols[k]
        /\ \A k, l \in 1..NCols(data) :
              k < l => Position(data.cols[k], prev.cols) < Position(data.cols[l], prev.cols)
        /\ NRows(data) = NRows(prev)
        /\ \A i \in 1..NRows(data) : \A k \in 1..NCols(data) :
              data.rows[i][k] = prev.rows[i][Position(data.cols[k], prev.cols)]
        /\ \A c \in 1..NCols(prev) :
              (NRows(prev) >= 2 /\ HasRepeat(prev, c)) => ~Removed(c)

\* The feature selector removed the middle column of three and kept the two
\* around it, each holding a repeated value.
C8_Witness ==
    /\ LastHandler("feature_selector")
    /\ NCols(prev) = 3
    /\ NRows(prev) >= 2
    /\ Removed(2)
    /\ data.cols = <<prev.cols[1], prev.cols[3]>>
    /\ HasRepeat(prev, 1)
    /\ HasRepeat(prev, 3)

\* ------------------------------------------- claims on the scenario
\* A file could not be read or written: not a matter of the table's cells.
IoFailed == failed \in {"loader", "saver"}

\* Column C of the input holds five different non-missing values.
TargetAllUnique == NoMissing(input, 3) /\ PairwiseDistinct(input, 3)

\* The run succeeded with A dropped, C the target, B the only feature.
ScenarioSuccess ==
    /\ exitStatus = <<0>>
    /\ ran = Stages
    /\ context["selected_features"] = <<"B", "C">>
    /\ context["target_column"] = "C"
    /\ context["X_data"].shape = <<context["cleaned_shape"][1], 1>>
    /\ context["y_data"].shape = <<context["cleaned_shape"][1]>>
    /\ context["cleaned_shape"][1] = NRows(input)
    /\ context["X_data"].vals = [i \in 1..NRows(input) |-> <<input.rows[i][2]>>]
    /\ context["y_data"].vals = [i \in 1..NRows(input) |-> input.rows[i][3]]
    /\ DOMAIN files = {XFile(context), YFile(context)}
    /\ files[XFile(context)] = context["X_data"]
    /\ files[YFile(context)] = context["y_data"]

\* C3 as stated: whatever the cells of B (with its repeated value) and of C,
\* a run of the scenario that no file error stops ends in success with column A
\* dropped, C the target column, a feature matrix of shape (rows after
\* cleaning, 1) holding B, a target vector of that length holding C, and both
\* files written.
C3_EveryChoice == (pc = "exited" /\ ~IoFailed) => ScenarioSuccess

\* C3 amended: the same, for every choice of cells in which column C is not
\* itself all-unique (C has a missing cell or a repeated value); when C holds
\* five different non-missing values the feature selector drops C as well and
\* the splitter fails: status 1, no file written.
C3_TargetNotAllUnique ==
    (pc = "exited" /\ ~IoFailed) =>
        IF TargetAllUnique
        THEN failed = "splitter" /\ exitStatus = <<1>> /\ DOMAIN files = {}
        ELSE ScenarioSuccess

\* A successful run of the scenario whose column C has a missing cell and
\* otherwise different values.
C3_Witness ==
    /\ pc = "exited"
    /\ exitStatus = <<0>>
    /\ context["X_data"].shape = <<5, 1>>
    /\ PairwiseDistinct(input, 3)
    /\ ~NoMissing(input, 3)

====
